---- MODULE Spec2Model ----
(***************************************************************************)
(* A model of the ztalk front end: the SSH context (SSHProvider), the      *)
(* network context (NetworkProvider) with the chat page that drives it,    *)
(* and the socket service (SocketService).                                 *)
(*                                                                         *)
(* React state is modelled by one variable per useState cell.  A handler   *)
(* is called through the callback of the latest render, so the values it   *)
(* closes over are the committed state at the moment of the call; a value  *)
(* read after an `await` is still the one captured at the call.            *)
(* A `setTimeout` is a task in a pending list; a task may fire when no     *)
(* task registered before it has a delay that is not longer.               *)
(***************************************************************************)
EXTENDS Integers, Sequences, FiniteSets, TLC

VARIABLES
    connections,        \* SSHProvider: useState<SSHConnection[]>
    outputs,            \* SSHProvider: useState<Record<string, SSHOutput[]>>
    savedConfigs,       \* SSHProvider: useState<SSHConfig[]>
    activeConnection,   \* SSHProvider: useState<string | null>
    isConnecting,       \* SSHProvider: useState<boolean>
    sshStore,           \* localStorage['ssh-configs'], as serialised
    sshPending,         \* timers of connect / executeCommand / uploadFile / downloadFile
    sshReturn,          \* the last settled SSH call and the value its promise gave
    genCount,           \* how many connection / config ids were generated
    now,                \* the clock read by new Date(); it advances at each call
    username,           \* NetworkProvider: useState(username)
    usernameStore,      \* localStorage['ztalk-username']
    peers,              \* NetworkProvider: useState<Peer[]>
    messages,           \* NetworkProvider: useState<Message[]>
    groups,             \* NetworkProvider: useState<Group[]>
    selectedPeer,       \* NetworkProvider: useState<Peer | null>, by peer id
    selectedGroup,      \* NetworkProvider: useState<Group | null>, by group id
    isConnected,        \* NetworkProvider: useState(false)
    netPending,         \* timers of the mount effect and of sendMessage
    uuidCount,          \* how many uuidv4() values were drawn
    socket,             \* SocketService.socket: the current handle, or null
    sockets,            \* the state of every socket io() has created
    connected,          \* SocketService.connected
    callbacks,          \* SocketService.*Callbacks, one list per channel
    received,           \* per callback, the events it was invoked with, in order
    pageConnections,    \* SSH page: useState<SSHConnection[]> (its `connections`)
    selectedConnection, \* SSH page: useState<string | null>
    activeTerminals,    \* SSH page: useState<Record<string, boolean>>, as the set of keys
    showNewForm,        \* SSH page: useState(false)
    pagePending,        \* SSH page: timers of handleConnect
    pageGenCount,       \* SSH page: how many connection ids were generated
    zcServices,         \* SimpleZeroconf.services, a dict in insertion order
    zcRunning,          \* SimpleZeroconf.running (the socket is bound, the thread loops)
    zcDiscovered,       \* SimpleZeroconf.discovered_services, a dict in insertion order
    zcListeners,        \* SimpleZeroconf.service_listeners
    zcInbox,            \* datagrams queued on the socket, oldest first
    zcNotified,         \* the listener calls made by the last loop iteration
    zcReplaced,         \* the entry the last store overwrote, if any
    zcHeard,            \* the (name, type) pairs stored since construction or close()
    ipcListeners,       \* ipcRenderer: the listeners of each channel, in order of registration
    ipcSubs,            \* the subscriptions electron.on() returned a function for
    ipcLast             \* the callbacks the last ipc event invoked, in order

sshVars == <<connections, outputs, savedConfigs, activeConnection, isConnecting,
             sshStore, sshPending, sshReturn, genCount, now>>

netVars == <<username, usernameStore, peers, messages, groups, selectedPeer, selectedGroup,
             isConnected, netPending, uuidCount>>

sockVars == <<socket, sockets, connected, callbacks, received>>

pageVars == <<pageConnections, selectedConnection, activeTerminals, showNewForm,
              pagePending, pageGenCount>>

zcVars == <<zcServices, zcRunning, zcDiscovered, zcListeners, zcInbox, zcNotified,
            zcReplaced, zcHeard>>

ipcVars == <<ipcListeners, ipcSubs, ipcLast>>

vars == <<sshVars, netVars, sockVars, pageVars, zcVars, ipcVars>>

\* the cells of the SSH context, without the clock
sshCells == <<connections, outputs, savedConfigs, activeConnection, isConnecting,
              sshStore, sshPending, sshReturn, genCount>>

\* what a step of one component leaves alone
sshOthers == <<netVars, sockVars, pageVars, zcVars, ipcVars>>
netOthers == <<sshVars, sockVars, pageVars, zcVars, ipcVars>>
sockOthers == <<sshVars, netVars, pageVars, zcVars, ipcVars>>
pageOthers == <<sshCells, netVars, sockVars, zcVars, ipcVars>>
zcOthers == <<sshVars, netVars, sockVars, pageVars, ipcVars>>
ipcOthers == <<sshVars, netVars, sockVars, pageVars, zcVars>>

----------------------------------------------------------------------------
(* Bounds of the model *)

\* handler calls are accepted while the clock is below MaxTime
MaxTime == 3
\* connect is accepted while fewer than MaxConns connections exist
MaxConns == 2
\* saveConfig adds a profile while fewer than MaxSaved are saved
MaxSaved == 1
\* a handler that draws uuidv4() runs while fewer than MaxUuid values were drawn
MaxUuid == 12
\* a handler appends a message while the list holds fewer than MaxMessages
MaxMessages == 7
\* io() creates a socket while fewer than MaxSockets were created
MaxSockets == 2
\* a callback is registered while fewer than MaxCallbacks are registered in all
MaxCallbacks == 2
\* an event is dispatched while fewer than MaxInvocations invocations were made
MaxInvocations == 2
\* a group is created while fewer than MaxGroups exist
MaxGroups == 2
\* the capacity an output buffer is measured against; the provider states none
OutputCap == 4
\* the SSH page creates a connection while it lists fewer than MaxPageConns
MaxPageConns == 3
\* service listeners registered at once
MaxListeners == 1
\* datagrams the socket buffer holds; a datagram that finds it full is dropped
MaxInbox == 1
\* calls of electron.on() that registered a listener
MaxSubs == 2

----------------------------------------------------------------------------
(* Values *)

None == "none"

\* ids a caller may put in config.id
CfgIds == {"c1"}
\* `conn-${Date.now()}-${random}`: a fresh id per call
GenIds == [n \in Nat |-> IF n = 1 THEN "conn-1" ELSE IF n = 2 THEN "conn-2"
                          ELSE IF n = 3 THEN "conn-3" ELSE IF n = 4 THEN "conn-4"
                          ELSE IF n = 5 THEN "conn-5" ELSE "conn-6"]
\* `config-${Date.now()}-${random}`: a fresh id per call
GenCfgIds == [n \in Nat |-> IF n = 1 THEN "config-1" ELSE IF n = 2 THEN "config-2"
                             ELSE IF n = 3 THEN "config-3" ELSE IF n = 4 THEN "config-4"
                             ELSE IF n = 5 THEN "config-5" ELSE "config-6"]
\* connection ids the callers pass to the handlers; an id is unknown until a
\* connect has used it
ConnIds == CfgIds \cup {GenIds[1]}

Commands == {"ls", "pwd"}

\* the credential part of an SSHConfig: <<password, privateKey, passphrase, savePassword>>
CredShapes ==
    { <<"pw", None, None, TRUE>>,
      <<"pw", None, None, FALSE>>,
      <<None, "key", "pp", FALSE>>,
      <<"pw", "key", None, TRUE>>,
      <<None, None, None, FALSE>> }

SSHConfig ==
    { [id |-> i, password |-> c[1], privateKey |-> c[2], passphrase |-> c[3],
       savePassword |-> c[4]] : i \in CfgIds \cup {None}, c \in CredShapes }

\* the configs used where the credentials play no part
SessionConfigs == {c \in SSHConfig : c.password = "pw" /\ c.privateKey = None
                                      /\ ~c.savePassword}

ConnectDelay == 1500
ExecDelay == 500
TransferDelay == 1500

----------------------------------------------------------------------------
(* Helpers over the state *)

\* prev[connectionId] || []
OutputsOf(o, id) == IF id \in DOMAIN o THEN o[id] ELSE <<>>

\* { ...prev, [connectionId]: chunks }
PutOutputs(o, id, chunks) ==
    [k \in (DOMAIN o) \cup {id} |-> IF k = id THEN chunks ELSE o[k]]

\* { ...prev, [connectionId]: [...connectionOutputs, chunk] }
AppendOutput(o, id, chunk) == PutOutputs(o, id, Append(OutputsOf(o, id), chunk))

Chunk(kind, text, isError) == [kind |-> kind, text |-> text, error |-> isError]

\* connections.find(conn => conn.id === connectionId): index of the first match, 0 if none
FindConn(conns, id) ==
    IF \E i \in 1..Len(conns) : conns[i].id = id
    THEN CHOOSE i \in 1..Len(conns) :
            conns[i].id = id /\ \A j \in 1..(i - 1) : conns[j].id # id
    ELSE 0

\* the guard with the status test left out: only an unknown id is refused
NotConnectedUnknownOnly(conns, id) == FindConn(conns, id) = 0

\* !connection || connection.status !== 'connected'
NotConnected(conns, id) ==
    FindConn(conns, id) = 0 \/ conns[FindConn(conns, id)].status # "connected"

\* the map with the id test left out: every connection gets the status
SetStatusAll(conns, id, st) ==
    [i \in 1..Len(conns) |-> [conns[i] EXCEPT !.status = st]]

\* prev.map(conn => conn.id === connectionId ? f(conn) : conn) with f = set status
SetStatus(conns, id, st) ==
    [i \in 1..Len(conns) |->
        IF conns[i].id = id THEN [conns[i] EXCEPT !.status = st] ELSE conns[i]]

getSimulatedCommandOutput(command) ==
    IF command = "ls" THEN "total 32 ..."
    ELSE IF command = "pwd" THEN "/home/user/projects"
    ELSE "Command not found"

\* a timer may fire when no earlier registered timer has a delay that is not longer
CanFire(pending, i) == \A j \in 1..(i - 1) : pending[j].delay > pending[i].delay

RemoveAt(s, i) == [k \in 1..(Len(s) - 1) |-> IF k < i THEN s[k] ELSE s[k + 1]]

\* JSON.stringify of one config: the properties whose value is defined
JsonOf(cfg) ==
    { <<f, cfg[f]>> : f \in {g \in (DOMAIN cfg) \ {"savePassword"} : cfg[g] # None} }
    \cup { <<"savePassword", IF cfg.savePassword THEN "true" ELSE "false">> }

\* JSON.stringify(savedConfigs)
Stringify(cfgs) == [i \in 1..Len(cfgs) |-> JsonOf(cfgs[i])]

----------------------------------------------------------------------------
(* SSHProvider *)

SSHInit ==
    /\ connections = <<>>
    /\ outputs = <<>>
    /\ savedConfigs = <<>>
    /\ activeConnection = None
    /\ isConnecting = FALSE
    /\ sshStore = Stringify(<<>>)
    /\ sshPending = <<>>
    /\ sshReturn = [op |-> None, id |-> None, value |-> None]
    /\ genCount = 0
    /\ now = 0

\* the config kept in the connection record
StoredConfig(config) ==
    [config EXCEPT !.password = IF config.savePassword THEN config.password ELSE None]

\* connect, up to its await
connect(config) ==
    /\ now < MaxTime
    /\ Len(connections) < MaxConns
    /\ LET connectionId == IF config.id # None THEN config.id ELSE GenIds[genCount + 1]
           newConnection == [id |-> connectionId,
                             config |-> StoredConfig(config),
                             status |-> "connecting",
                             error |-> None,
                             lastActivity |-> now,
                             history |-> <<>>]
       IN /\ isConnecting' = TRUE
          /\ genCount' = IF config.id # None THEN genCount ELSE genCount + 1
          /\ connections' = Append(connections, newConnection)
          /\ outputs' = PutOutputs(outputs, connectionId,
                                   <<Chunk("connecting", "", FALSE)>>)
          /\ sshPending' = Append(sshPending,
                                  [op |-> "connect", id |-> connectionId, cmd |-> None,
                                   active |-> activeConnection, delay |-> ConnectDelay])
    /\ now' = now + 1
    /\ UNCHANGED <<savedConfigs, activeConnection, sshStore, sshReturn>>
    /\ UNCHANGED sshOthers

\* connect, after its await
connectDone(i) ==
    /\ i \in 1..Len(sshPending)
    /\ sshPending[i].op = "connect"
    /\ CanFire(sshPending, i)
    /\ LET t == sshPending[i]
       IN /\ connections' = SetStatus(connections, t.id, "connected")
          /\ outputs' = AppendOutput(outputs, t.id, Chunk("connected", "", FALSE))
          /\ activeConnection' = IF t.active = None THEN t.id ELSE activeConnection
          /\ isConnecting' = FALSE
          /\ sshReturn' = [op |-> "connect", id |-> t.id, value |-> t.id]
    /\ sshPending' = RemoveAt(sshPending, i)
    /\ UNCHANGED <<now, savedConfigs, sshStore, genCount>>
    /\ UNCHANGED sshOthers

\* disconnect: it has no await, so it runs in one step
disconnect(connectionId) ==
    /\ now < MaxTime
    /\ connections' = SetStatus(connections, connectionId, "disconnected")
    /\ outputs' = AppendOutput(outputs, connectionId, Chunk("disconnected", "", FALSE))
    /\ activeConnection' = IF activeConnection = connectionId THEN None
                           ELSE activeConnection
    /\ sshReturn' = [op |-> "disconnect", id |-> connectionId, value |-> "true"]
    /\ now' = now + 1
    /\ UNCHANGED <<savedConfigs, isConnecting, sshStore, sshPending, genCount>>
    /\ UNCHANGED sshOthers

\* prev.map(conn => conn.id === connectionId ? {...conn, lastActivity, history: [...]} : conn)
AddHistory(conns, id, command, t) ==
    [i \in 1..Len(conns) |->
        IF conns[i].id = id
        THEN [conns[i] EXCEPT !.lastActivity = t,
                              !.history = Append(@, [command |-> command, timestamp |-> t])]
        ELSE conns[i]]

\* executeCommand, up to its await (or through its catch block when not connected)
executeCommand(connectionId, command) ==
    /\ now < MaxTime
    /\ IF NotConnected(connections, connectionId)
       THEN /\ outputs' = AppendOutput(outputs, connectionId,
                                       Chunk("error", "Not connected", TRUE))
            /\ sshReturn' = [op |-> "executeCommand", id |-> connectionId, value |-> "false"]
            /\ UNCHANGED <<connections, sshPending>>
       ELSE /\ connections' = AddHistory(connections, connectionId, command, now)
            /\ outputs' = AppendOutput(outputs, connectionId, Chunk("echo", command, FALSE))
            /\ sshPending' = Append(sshPending,
                                    [op |-> "executeCommand", id |-> connectionId,
                                     cmd |-> command, active |-> activeConnection,
                                     delay |-> ExecDelay])
            /\ UNCHANGED sshReturn
    /\ now' = now + 1
    /\ UNCHANGED <<savedConfigs, activeConnection, isConnecting, sshStore, genCount>>
    /\ UNCHANGED sshOthers

\* executeCommand, after its await
executeCommandDone(i) ==
    /\ i \in 1..Len(sshPending)
    /\ sshPending[i].op = "executeCommand"
    /\ CanFire(sshPending, i)
    /\ LET t == sshPending[i]
       IN /\ outputs' = AppendOutput(outputs, t.id,
                                     Chunk("out", getSimulatedCommandOutput(t.cmd), FALSE))
          /\ sshReturn' = [op |-> "executeCommand", id |-> t.id, value |-> "true"]
    /\ sshPending' = RemoveAt(sshPending, i)
    /\ UNCHANGED <<now, connections, savedConfigs, activeConnection, isConnecting, sshStore,
                   genCount>>
    /\ UNCHANGED sshOthers

\* the setter of the activeConnection cell, exposed by the context
setActiveConnection(connectionId) ==
    /\ now < MaxTime
    /\ activeConnection' = connectionId
    /\ now' = now + 1
    /\ UNCHANGED <<connections, outputs, savedConfigs, isConnecting, sshStore, sshPending,
                   sshReturn, genCount>>
    /\ UNCHANGED sshOthers

\* savedConfigs.findIndex(c => c.id === configId): 0 if none
FindConfig(cfgs, id) ==
    IF \E i \in 1..Len(cfgs) : cfgs[i].id = id
    THEN CHOOSE i \in 1..Len(cfgs) :
            cfgs[i].id = id /\ \A j \in 1..(i - 1) : cfgs[j].id # id
    ELSE 0

\* what saveConfig puts in the list: the whole config, with an id
SavedConfig(config, configId) == [config EXCEPT !.id = configId]

\* saveConfig, with the effect that persists savedConfigs
saveConfig(config) ==
    /\ now < MaxTime
    /\ LET configId == IF config.id # None THEN config.id ELSE GenCfgIds[genCount + 1]
           updatedConfig == SavedConfig(config, configId)
           existingIndex == FindConfig(savedConfigs, configId)
       IN /\ existingIndex = 0 => Len(savedConfigs) < MaxSaved
          /\ savedConfigs' =
                IF existingIndex > 0
                THEN [savedConfigs EXCEPT ![existingIndex] = updatedConfig]
                ELSE Append(savedConfigs, updatedConfig)
          /\ genCount' = IF config.id # None THEN genCount ELSE genCount + 1
    /\ sshStore' = Stringify(savedConfigs')
    /\ now' = now + 1
    /\ UNCHANGED <<connections, outputs, activeConnection, isConnecting, sshPending,
                   sshReturn>>
    /\ UNCHANGED sshOthers

\* prev.filter(config => config.id !== configId)
FilterConfigs(cfgs, id) ==
    LET keep == {i \in 1..Len(cfgs) : cfgs[i].id # id}
        F[i \in 0..Len(cfgs)] ==
            IF i = 0 THEN <<>>
            ELSE IF i \in keep THEN Append(F[i - 1], cfgs[i]) ELSE F[i - 1]
    IN F[Len(cfgs)]

\* deleteConfig, with the effect that persists savedConfigs
deleteConfig(configId) ==
    /\ now < MaxTime
    /\ savedConfigs' = FilterConfigs(savedConfigs, configId)
    /\ sshStore' = Stringify(savedConfigs')
    /\ now' = now + 1
    /\ UNCHANGED <<connections, outputs, activeConnection, isConnecting, sshPending,
                   sshReturn, genCount>>
    /\ UNCHANGED sshOthers

clearOutput(connectionId) ==
    /\ now < MaxTime
    /\ outputs' = PutOutputs(outputs, connectionId, <<Chunk("cleared", "", FALSE)>>)
    /\ now' = now + 1
    /\ UNCHANGED <<connections, savedConfigs, activeConnection, isConnecting, sshStore,
                   sshPending, sshReturn, genCount>>
    /\ UNCHANGED sshOthers

\* uploadFile / downloadFile, up to the await (or through the catch block)
transferFile(op, connectionId) ==
    /\ now < MaxTime
    /\ IF NotConnected(connections, connectionId)
       THEN /\ outputs' = AppendOutput(outputs, connectionId,
                                       Chunk(op, "error: Not connected", TRUE))
            /\ sshReturn' = [op |-> op, id |-> connectionId, value |-> "false"]
            /\ UNCHANGED sshPending
       ELSE /\ outputs' = AppendOutput(outputs, connectionId, Chunk(op, "started", FALSE))
            /\ sshPending' = Append(sshPending,
                                    [op |-> op, id |-> connectionId, cmd |-> None,
                                     active |-> activeConnection, delay |-> TransferDelay])
            /\ UNCHANGED sshReturn
    /\ now' = now + 1
    /\ UNCHANGED <<connections, savedConfigs, activeConnection, isConnecting, sshStore,
                   genCount>>
    /\ UNCHANGED sshOthers

uploadFile(connectionId) == transferFile("uploadFile", connectionId)

downloadFile(connectionId) == transferFile("downloadFile", connectionId)

\* uploadFile / downloadFile, after the await
transferFileDone(i) ==
    /\ i \in 1..Len(sshPending)
    /\ sshPending[i].op \in {"uploadFile", "downloadFile"}
    /\ CanFire(sshPending, i)
    /\ LET t == sshPending[i]
       IN /\ outputs' = AppendOutput(outputs, t.id, Chunk(t.op, "success", FALSE))
          /\ sshReturn' = [op |-> t.op, id |-> t.id, value |-> "true"]
    /\ sshPending' = RemoveAt(sshPending, i)
    /\ UNCHANGED <<now, connections, savedConfigs, activeConnection, isConnecting, sshStore,
                   genCount>>
    /\ UNCHANGED sshOthers

\* the listener of the 'ssh-output' channel
sshOutputEvent(connectionId) ==
    /\ now < MaxTime
    /\ outputs' = AppendOutput(outputs, connectionId, Chunk("ssh-output", "", FALSE))
    /\ now' = now + 1
    /\ UNCHANGED <<connections, savedConfigs, activeConnection, isConnecting, sshStore,
                   sshPending, sshReturn, genCount>>
    /\ UNCHANGED sshOthers

\* the connection life cycle
SSHNext ==
    \/ \E config \in SessionConfigs : connect(config)
    \/ \E i \in 1..Len(sshPending) : connectDone(i)
    \/ \E id \in ConnIds : disconnect(id)
    \/ \E id \in ConnIds, command \in Commands : executeCommand(id, command)
    \/ \E i \in 1..Len(sshPending) : executeCommandDone(i)
    \/ \E id \in ConnIds \cup {None} : setActiveConnection(id)
    \/ \E id \in ConnIds : clearOutput(id)
    \/ \E id \in ConnIds : uploadFile(id)
    \/ \E id \in ConnIds : downloadFile(id)
    \/ \E i \in 1..Len(sshPending) : transferFileDone(i)
    \/ \E id \in ConnIds : sshOutputEvent(id)

\* the profiles and the credentials
SSHStoreNext ==
    \/ \E config \in SSHConfig : connect(config)
    \/ \E i \in 1..Len(sshPending) : connectDone(i)
    \/ \E id \in ConnIds : disconnect(id)
    \/ \E config \in SSHConfig : saveConfig(config)
    \/ \E id \in CfgIds \cup {GenCfgIds[1]} : deleteConfig(id)

----------------------------------------------------------------------------
(* NetworkProvider and the Chat page *)

Usernames == {"User_1", "Ann"}

\* what the user can have typed in the message box
Contents == {"", " ", "hi"}

\* the message box and whether a file is attached, when Send is pressed
SendInputs == {<<text, FALSE>> : text \in Contents} \cup {<<"", TRUE>>}

\* Chat.selectedPeers when "Create Group" is pressed: the lists togglePeerSelection
\* builds, a peer being appended when ticked and filtered out when unticked
TickedPeers == {<<>>, <<"1">>, <<"2">>, <<"1", "2">>, <<"2", "1">>}

\* what the user can have typed as a group name
GroupNames == {"", "team"}

\* content.trim()
Trim(text) == IF text = " " THEN "" ELSE text

BobDelay == 10000
ResponseDelayMin == 2000
ResponseDelayMax == 5000

mockPeers ==
    << [id |-> "1", name |-> "Alice", isOnline |-> TRUE],
       [id |-> "2", name |-> "Bob", isOnline |-> TRUE],
       [id |-> "3", name |-> "Charlie", isOnline |-> FALSE] >>

mockGroups == << [id |-> "g1", name |-> "Team Alpha", members |-> <<"1", "2", "self">>] >>

Message(id, content, sender, senderName, recipient, group, isPrivate, isRead) ==
    [id |-> id, content |-> content, sender |-> sender, senderName |-> senderName,
     recipient |-> recipient, group |-> group, isPrivate |-> isPrivate, isRead |-> isRead]

\* the five messages of the mount effect, with ids drawn after n earlier uuids
mockMessages(n, name) ==
    << Message(n + 1, "Hello everyone!", "self", name, None, None, FALSE, TRUE),
       Message(n + 2, "Hi there!", "1", "Alice", None, None, FALSE, TRUE),
       Message(n + 3, "Hey Alice", "self", name, "1", None, TRUE, TRUE),
       Message(n + 4, "Sure", "1", "Alice", "self", None, TRUE, TRUE),
       Message(n + 5, "Team update", "1", "Alice", None, "g1", FALSE, TRUE) >>

bobTimer == [op |-> "bob", from |-> "2", name |-> "Bob", lo |-> BobDelay, hi |-> BobDelay]

NetInit ==
    /\ username = "User_1"
    /\ usernameStore = "User_1"
    /\ peers = mockPeers
    /\ groups = mockGroups
    /\ messages = mockMessages(0, "User_1")
    /\ isConnected = TRUE
    /\ selectedPeer = None
    /\ selectedGroup = None
    /\ netPending = <<bobTimer>>
    /\ uuidCount = 5

\* peers.find(p => p.id === peerId): index of the first match, 0 if none
FindById(list, id) ==
    IF \E i \in 1..Len(list) : list[i].id = id
    THEN CHOOSE i \in 1..Len(list) :
            list[i].id = id /\ \A j \in 1..(i - 1) : list[j].id # id
    ELSE 0

\* the marking that ignores whom the message was sent to
ReadFromPeerAnyRecipient(msgs, prs, peerId) ==
    IF peerId = None \/ FindById(prs, peerId) = 0 THEN msgs
    ELSE [i \in 1..Len(msgs) |->
            IF msgs[i].sender = peerId /\ ~msgs[i].isRead
            THEN [msgs[i] EXCEPT !.isRead = TRUE] ELSE msgs[i]]

\* the messages after selectPeer(peerId)
ReadFromPeer(msgs, prs, peerId) ==
    IF peerId = None \/ FindById(prs, peerId) = 0 THEN msgs
    ELSE [i \in 1..Len(msgs) |->
            IF msgs[i].sender = peerId /\ msgs[i].recipient = "self" /\ ~msgs[i].isRead
            THEN [msgs[i] EXCEPT !.isRead = TRUE] ELSE msgs[i]]

\* the messages after selectGroup(groupId)
ReadFromGroup(msgs, grps, groupId) ==
    IF groupId = None \/ FindById(grps, groupId) = 0 THEN msgs
    ELSE [i \in 1..Len(msgs) |->
            IF msgs[i].group = groupId /\ ~msgs[i].isRead
            THEN [msgs[i] EXCEPT !.isRead = TRUE] ELSE msgs[i]]

\* the selected peer after selectPeer(peerId)
PeerSelection(prs, peerId) ==
    IF peerId = None \/ FindById(prs, peerId) = 0 THEN None ELSE peerId

\* the selected group after selectGroup(groupId)
GroupSelection(grps, groupId) ==
    IF groupId = None \/ FindById(grps, groupId) = 0 THEN None ELSE groupId

\* Chat, "Broadcast" entry: selectPeer(null); selectGroup(null)
clickBroadcast ==
    /\ selectedPeer' = None
    /\ selectedGroup' = None
    /\ UNCHANGED <<username, usernameStore, peers, messages, groups, isConnected,
                   netPending, uuidCount>>
    /\ UNCHANGED netOthers

\* Chat, a peer entry: selectPeer(peer.id); selectGroup(null)
clickPeer(peerId) ==
    /\ selectedPeer' = PeerSelection(peers, peerId)
    /\ selectedGroup' = None
    /\ messages' = ReadFromPeer(messages, peers, peerId)
    /\ UNCHANGED <<username, usernameStore, peers, groups, isConnected, netPending,
                   uuidCount>>
    /\ UNCHANGED netOthers

\* Chat, a group entry: selectGroup(group.id); selectPeer(null)
clickGroup(groupId) ==
    /\ selectedGroup' = GroupSelection(groups, groupId)
    /\ selectedPeer' = None
    /\ messages' = ReadFromGroup(messages, groups, groupId)
    /\ UNCHANGED <<username, usernameStore, peers, groups, isConnected, netPending,
                   uuidCount>>
    /\ UNCHANGED netOthers

\* the record with the group falling back to the recipient
newMessageGroupFromRecipient(id, content, name, recipientId, groupId) ==
    Message(id, content, "self", name, recipientId,
            IF groupId # None THEN groupId ELSE recipientId, recipientId # None, TRUE)

\* the Message record sendMessage builds
newMessage(id, content, name, recipientId, groupId) ==
    Message(id, content, "self", name, recipientId, groupId, recipientId # None, TRUE)

\* sendMessage(content, recipientId, groupId): the new message list and timer list
sendMessage(content, recipientId, groupId) ==
    IF Trim(content) = ""
    THEN UNCHANGED <<messages, netPending, uuidCount>>
    ELSE /\ messages' = Append(messages,
                               newMessage(uuidCount + 1, content, username,
                                          recipientId, groupId))
         /\ uuidCount' = uuidCount + 1
         /\ netPending' =
              IF /\ recipientId # None
                 /\ FindById(peers, recipientId) # 0
                 /\ peers[FindById(peers, recipientId)].isOnline
              THEN Append(netPending,
                          [op |-> "response", from |-> recipientId,
                           name |-> peers[FindById(peers, recipientId)].name,
                           lo |-> ResponseDelayMin, hi |-> ResponseDelayMax])
              ELSE netPending

\* the arguments Chat.handleSendMessage passes to sendMessage: <<recipientId, groupId>>
SendTarget(selPeer, selGroup) ==
    IF selPeer # None THEN <<selPeer, None>>
    ELSE IF selGroup # None THEN <<None, selGroup>>
    ELSE <<None, None>>

\* Chat.handleSendMessage with the text box holding `text`
handleSendMessage(text, attached) ==
    /\ uuidCount < MaxUuid
    /\ Len(messages) < MaxMessages
    /\ ~(Trim(text) = "" /\ ~attached)
    /\ LET content == IF attached THEN "[file]" ELSE text
           target == SendTarget(selectedPeer, selectedGroup)
       IN sendMessage(content, target[1], target[2])
    /\ UNCHANGED <<username, usernameStore, peers, groups, selectedPeer, selectedGroup,
                   isConnected>>
    /\ UNCHANGED netOthers

\* a timer may fire when no timer registered before it is certain to be due earlier
NetCanFire(pending, i) == \A j \in 1..(i - 1) : pending[j].hi > pending[i].lo

\* a timer fires: the simulated incoming message is appended
incomingMessage(i) ==
    /\ i \in 1..Len(netPending)
    /\ NetCanFire(netPending, i)
    /\ LET t == netPending[i]
       IN messages' = Append(messages,
                             IF t.op = "bob"
                             THEN Message(uuidCount + 1, "Hey everyone", t.from, t.name,
                                          None, None, FALSE, FALSE)
                             ELSE Message(uuidCount + 1, "Thank you", t.from, t.name,
                                          "self", None, TRUE, FALSE))
    /\ uuidCount' = uuidCount + 1
    /\ netPending' = RemoveAt(netPending, i)
    /\ UNCHANGED <<username, usernameStore, peers, groups, selectedPeer, selectedGroup,
                   isConnected>>
    /\ UNCHANGED netOthers

\* the Group record createGroup builds
newGroup(id, name, memberIds) ==
    [id |-> id, name |-> name, members |-> Append(memberIds, "self")]

\* the group id uuidv4() gives as the n-th value drawn
GroupIds == [n \in Nat |-> IF n = 6 THEN "g-6" ELSE IF n = 7 THEN "g-7"
                            ELSE IF n = 8 THEN "g-8" ELSE IF n = 9 THEN "g-9"
                            ELSE IF n = 10 THEN "g-10" ELSE IF n = 11 THEN "g-11"
                            ELSE IF n = 12 THEN "g-12" ELSE IF n = 13 THEN "g-13"
                            ELSE "g-14"]

\* createGroup(name, memberIds): the new group list, selection and message list
createGroup(name, memberIds) ==
    IF Trim(name) = "" \/ Len(memberIds) = 0
    THEN UNCHANGED <<groups, selectedGroup, selectedPeer, messages, uuidCount>>
    ELSE LET g == newGroup(GroupIds[uuidCount + 1], name, memberIds)
         IN /\ groups' = Append(groups, g)
            /\ selectedGroup' = g.id
            /\ selectedPeer' = None
            /\ messages' = Append(messages,
                                  Message(uuidCount + 2, "Group created", "system", "System",
                                          None, g.id, FALSE, TRUE))
            /\ uuidCount' = uuidCount + 2

\* Chat.handleCreateGroup, which calls createGroup(name, selectedPeers)
handleCreateGroup(name, selectedPeers) ==
    /\ uuidCount + 2 <= MaxUuid
    /\ Len(messages) < MaxMessages
    /\ Len(groups) < MaxGroups
    /\ Trim(name) # ""
    /\ Len(selectedPeers) # 0
    /\ createGroup(name, selectedPeers)
    /\ UNCHANGED <<username, usernameStore, peers, isConnected, netPending>>
    /\ UNCHANGED netOthers

\* setUsername, with the two effects that depend on username
setUsername(name) ==
    /\ uuidCount + 5 <= MaxUuid
    /\ name # username
    /\ username' = name
    /\ usernameStore' = name
    /\ peers' = mockPeers
    /\ groups' = mockGroups
    /\ messages' = mockMessages(uuidCount, name)
    /\ uuidCount' = uuidCount + 5
    /\ isConnected' = TRUE
    /\ netPending' = Append(netPending, bobTimer)
    /\ UNCHANGED <<selectedPeer, selectedGroup>>
    /\ UNCHANGED netOthers

NetNext ==
    \/ clickBroadcast
    \/ \E i \in 1..Len(peers) : clickPeer(peers[i].id)
    \/ \E i \in 1..Len(groups) : clickGroup(groups[i].id)
    \/ \E in \in SendInputs : handleSendMessage(in[1], in[2])
    \/ \E i \in 1..Len(netPending) : incomingMessage(i)
    \/ \E name \in GroupNames, ticked \in TickedPeers : handleCreateGroup(name, ticked)
    \/ \E name \in Usernames : setUsername(name)

\* the recipient ids a caller of the context can pass: two known peers, one of
\* them offline, and an id no peer carries
RecipientIds == {None, "1", "3", "9"}

\* the group ids a caller of the context can pass
GroupArgs == {None, "g1"}

\* the member lists a caller of the context can pass
MemberLists == {<<>>, <<"1">>, <<"1", "2">>, <<"1", "1">>, <<"self">>, <<"9">>}

\* useNetwork().sendMessage called by a consumer of the context
sendMessageCall(content, recipientId, groupId) ==
    /\ uuidCount < MaxUuid
    /\ Len(messages) < MaxMessages
    /\ sendMessage(content, recipientId, groupId)
    /\ UNCHANGED <<username, usernameStore, peers, groups, selectedPeer, selectedGroup,
                   isConnected>>
    /\ UNCHANGED netOthers

\* useNetwork().createGroup called by a consumer of the context
createGroupCall(name, memberIds) ==
    /\ uuidCount + 2 <= MaxUuid
    /\ Len(messages) < MaxMessages
    /\ Len(groups) < MaxGroups
    /\ createGroup(name, memberIds)
    /\ UNCHANGED <<username, usernameStore, peers, isConnected, netPending>>
    /\ UNCHANGED netOthers

\* the peer ids a caller of the context can pass to selectPeer
PeerArgs == {None, "1", "2", "9"}

\* the group ids a caller of the context can pass to selectGroup
SelectGroupArgs == {None, "g1", "g9"}

\* useNetwork().selectPeer called by a consumer of the context
selectPeerCall(peerId) ==
    /\ selectedPeer' = PeerSelection(peers, peerId)
    /\ messages' = ReadFromPeer(messages, peers, peerId)
    /\ UNCHANGED <<username, usernameStore, peers, groups, selectedGroup, isConnected,
                   netPending, uuidCount>>
    /\ UNCHANGED netOthers

\* useNetwork().selectGroup called by a consumer of the context
selectGroupCall(groupId) ==
    /\ selectedGroup' = GroupSelection(groups, groupId)
    /\ messages' = ReadFromGroup(messages, groups, groupId)
    /\ UNCHANGED <<username, usernameStore, peers, groups, selectedPeer, isConnected,
                   netPending, uuidCount>>
    /\ UNCHANGED netOthers

NetApiNext ==
    \/ \E peerId \in PeerArgs : selectPeerCall(peerId)
    \/ \E groupId \in SelectGroupArgs : selectGroupCall(groupId)
    \/ \E content \in Contents, recipientId \in RecipientIds, groupId \in GroupArgs :
          sendMessageCall(content, recipientId, groupId)
    \/ \E name \in GroupNames, memberIds \in MemberLists : createGroupCall(name, memberIds)
    \/ \E i \in 1..Len(netPending) : incomingMessage(i)

----------------------------------------------------------------------------

(* SocketService *)

Channels == {"peer_event", "message_event", "network_change", "dhcp_event", "ssh_event"}

\* the callbacks observers register; ObserverThrows throws when it is invoked
Callbacks == {"ObserverA", "ObserverThrows"}

Throws(cb) == cb = "ObserverThrows"

\* the ids the server puts in an event (messageId for a message_event)
EventIds == {"m1", "m2"}

\* the handle io() gives as the n-th socket
Handles == [n \in Nat |-> IF n = 1 THEN "socket-1" ELSE IF n = 2 THEN "socket-2"
                           ELSE "socket-3"]

SockInit ==
    /\ socket = None
    /\ sockets = <<>>
    /\ connected = FALSE
    /\ callbacks = [ch \in Channels |-> <<>>]
    /\ received = [cb \in Callbacks |-> <<>>]

\* every invocation received so far
Invocations == Len(received["ObserverA"]) + Len(received["ObserverThrows"])

\* connect(): io() creates a socket, which starts opening; its listeners are attached
socketConnect ==
    /\ Len(sockets) < MaxSockets
    /\ socket' = Handles[Len(sockets) + 1]
    /\ sockets' = Append(sockets, "opening")
    /\ UNCHANGED <<connected, callbacks, received>>
    /\ UNCHANGED sockOthers

\* the 'connect' listener of socket n
onConnect(n) ==
    /\ n \in 1..Len(sockets)
    /\ sockets[n] = "opening"
    /\ sockets' = [sockets EXCEPT ![n] = "open"]
    /\ connected' = TRUE
    /\ UNCHANGED <<socket, callbacks, received>>
    /\ UNCHANGED sockOthers

\* the 'disconnect' listener of socket n: the link dropped, the socket reconnects
onDisconnect(n) ==
    /\ n \in 1..Len(sockets)
    /\ sockets[n] = "open"
    /\ sockets' = [sockets EXCEPT ![n] = "opening"]
    /\ connected' = FALSE
    /\ UNCHANGED <<socket, callbacks, received>>
    /\ UNCHANGED sockOthers

\* disconnect()
socketDisconnect ==
    /\ IF socket # None
       THEN /\ sockets' = [n \in 1..Len(sockets) |->
                              IF Handles[n] = socket THEN "closed" ELSE sockets[n]]
            /\ socket' = None
            /\ connected' = FALSE
       ELSE UNCHANGED <<socket, sockets, connected>>
    /\ UNCHANGED <<callbacks, received>>
    /\ UNCHANGED sockOthers

\* how many callbacks are registered, over all channels
Registered ==
    Len(callbacks["peer_event"]) + Len(callbacks["message_event"])
    + Len(callbacks["network_change"]) + Len(callbacks["dhcp_event"])
    + Len(callbacks["ssh_event"])

\* this.xCallbacks.push(callback)
onEvent(ch, cb) ==
    /\ Registered < MaxCallbacks
    /\ callbacks' = [callbacks EXCEPT ![ch] = Append(@, cb)]
    /\ UNCHANGED <<socket, sockets, connected, received>>
    /\ UNCHANGED sockOthers

\* this.xCallbacks = this.xCallbacks.filter(cb => cb !== callback)
offEvent(ch, cb) ==
    /\ callbacks' = [callbacks EXCEPT ![ch] = SelectSeq(@, LAMBDA x : x # cb)]
    /\ UNCHANGED <<socket, sockets, connected, received>>
    /\ UNCHANGED sockOthers

\* list.forEach(callback => callback(data)): the callbacks invoked, in order; a
\* callback that throws ends the loop
Invoked(list) ==
    LET stop == {i \in 1..Len(list) : Throws(list[i])}
        last == IF stop = {} THEN Len(list)
                ELSE CHOOSE i \in stop : \A j \in stop : i <= j
    IN SubSeq(list, 1, last)

\* how many times cb occurs in list
Occurrences(list, cb) == Cardinality({i \in 1..Len(list) : list[i] = cb})

\* s followed by n copies of x
AppendTimes(s, x, n) == s \o [k \in 1..n |-> x]

\* the listener of channel ch of socket n, for an event carrying id
dispatch(n, ch, id) ==
    /\ n \in 1..Len(sockets)
    /\ sockets[n] = "open"
    /\ Invocations < MaxInvocations
    /\ received' = [cb \in Callbacks |->
                      AppendTimes(received[cb], <<ch, id>>,
                                  Occurrences(Invoked(callbacks[ch]), cb))]
    /\ UNCHANGED <<socket, sockets, connected, callbacks>>
    /\ UNCHANGED sockOthers

SockNext ==
    \/ socketConnect
    \/ \E n \in 1..Len(sockets) : onConnect(n)
    \/ \E n \in 1..Len(sockets) : onDisconnect(n)
    \/ socketDisconnect
    \/ \E ch \in Channels, cb \in Callbacks : onEvent(ch, cb)
    \/ \E ch \in Channels : \E k \in 1..Len(callbacks[ch]) : offEvent(ch, callbacks[ch][k])
    \/ \E n \in 1..Len(sockets), ch \in Channels, id \in EventIds : dispatch(n, ch, id)


----------------------------------------------------------------------------
(* The SSH page *)

PageConnectDelay == 1500

\* Math.random().toString(36).substring(2, 9): a fresh id per call
PageGenIds == [n \in Nat |-> IF n = 1 THEN "p-1" ELSE IF n = 2 THEN "p-2"
                              ELSE IF n = 3 THEN "p-3" ELSE "p-4"]

\* a Date cell: <<>> when undefined, <<t>> when set
NoDate == <<>>

\* the connections the mount effect loads; Yesterday stands for Date.now() - 86400000
Yesterday == -1

loadedConnections ==
    << [id |-> "1", name |-> "Development Server", authType |-> "key",
        status |-> "disconnected", lastConnected |-> <<Yesterday>>, error |-> None],
       [id |-> "2", name |-> "Production Server", authType |-> "password",
        status |-> "disconnected", lastConnected |-> NoDate, error |-> None] >>

\* what the form holds when "Save Connection" is pressed
Forms ==
    [name : {"", " ", "srv"}, host : {"", "h"}, username : {"", "u"},
     authType : {"password", "key"}, password : {"", "pw"},
     keyPath : {"", "~/.ssh/id_rsa"}]

PageInit ==
    /\ pageConnections = loadedConnections
    /\ selectedConnection = None
    /\ activeTerminals = {}
    /\ showNewForm = FALSE
    /\ pagePending = <<>>
    /\ pageGenCount = 0

\* connections.find(c => c.id === id): index of the first match, 0 if none
FindPageConn(conns, id) ==
    IF \E i \in 1..Len(conns) : conns[i].id = id
    THEN CHOOSE i \in 1..Len(conns) :
            conns[i].id = id /\ \A j \in 1..(i - 1) : conns[j].id # id
    ELSE 0

\* the sidebar's "+" button and the "Add ..." / "Cancel" buttons
setShowNewForm(show) ==
    /\ showNewForm' = show
    /\ UNCHANGED <<pageConnections, selectedConnection, activeTerminals, pagePending,
                   pageGenCount, now>>
    /\ UNCHANGED pageOthers

\* a sidebar entry: setSelectedConnection(conn.id)
setSelectedConnection(id) ==
    /\ FindPageConn(pageConnections, id) # 0
    /\ selectedConnection' = id
    /\ UNCHANGED <<pageConnections, activeTerminals, showNewForm, pagePending,
                   pageGenCount, now>>
    /\ UNCHANGED pageOthers

\* the form passes the validation of handleCreateConnection
FormValid(form) ==
    /\ Trim(form.name) # ""
    /\ Trim(form.host) # ""
    /\ Trim(form.username) # ""
    /\ ~(form.authType = "password" /\ form.password = "")
    /\ ~(form.authType = "key" /\ form.keyPath = "")

\* the record handleCreateConnection adds: { ...newConnection, id, status }
CreatedConnection(form, id) ==
    [id |-> id, name |-> form.name, authType |-> form.authType,
     status |-> "disconnected", lastConnected |-> NoDate, error |-> None]

\* "Save Connection", shown while the form is open
handleCreateConnection(form) ==
    /\ now < MaxTime
    /\ Len(pageConnections) < MaxPageConns
    /\ showNewForm
    /\ FormValid(form)
    /\ pageConnections' = Append(pageConnections,
                                 CreatedConnection(form, PageGenIds[pageGenCount + 1]))
    /\ pageGenCount' = pageGenCount + 1
    /\ showNewForm' = FALSE
    /\ now' = now + 1
    /\ UNCHANGED <<selectedConnection, activeTerminals, pagePending>>
    /\ UNCHANGED pageOthers

\* the connection the details panel shows: index in pageConnections, 0 if none
ShownConn ==
    IF showNewForm \/ selectedConnection = None THEN 0
    ELSE FindPageConn(pageConnections, selectedConnection)

\* prev.map(conn => conn.id === id ? { ...conn, status } : conn)
SetPageStatus(conns, id, st) ==
    [i \in 1..Len(conns) |->
        IF conns[i].id = id THEN [conns[i] EXCEPT !.status = st] ELSE conns[i]]

\* handleConnect(conn.id), up to its setTimeout; its buttons are shown for the
\* selected connection when it is not connecting and not (connected with a terminal)
handleConnect(id) ==
    /\ now < MaxTime
    /\ ShownConn # 0
    /\ pageConnections[ShownConn].id = id
    /\ pageConnections[ShownConn].status # "connecting"
    /\ \/ pageConnections[ShownConn].status # "connected"
       \/ id \notin activeTerminals
    /\ pageConnections' = SetPageStatus(pageConnections, id, "connecting")
    /\ pagePending' = Append(pagePending,
                             [id |-> id,
                              found |-> FindPageConn(pageConnections, id) # 0,
                              delay |-> PageConnectDelay])
    /\ now' = now + 1
    /\ UNCHANGED <<selectedConnection, activeTerminals, showNewForm, pageGenCount>>
    /\ UNCHANGED pageOthers

\* the map with the status left as it is
ConnectOutcomeKeepsStatus(conns, id, success, t) ==
    [i \in 1..Len(conns) |->
        IF conns[i].id = id
        THEN [conns[i] EXCEPT !.lastConnected = IF success THEN <<t>> ELSE @,
                              !.error = IF success THEN None ELSE "Connection refused"]
        ELSE conns[i]]

\* the map of the timer callback, with success the outcome of Math.random() > 0.2
ConnectOutcome(conns, id, success, t) ==
    [i \in 1..Len(conns) |->
        IF conns[i].id = id
        THEN [conns[i] EXCEPT !.status = IF success THEN "connected" ELSE "error",
                              !.lastConnected = IF success THEN <<t>> ELSE @,
                              !.error = IF success THEN None ELSE "Connection refused"]
        ELSE conns[i]]

\* the timer callback of handleConnect; `found` is what the connections of the
\* render that called handleConnect give for the id
handleConnectTimer(i, success) ==
    /\ i \in 1..Len(pagePending)
    /\ CanFire(pagePending, i)
    /\ LET t == pagePending[i]
       IN /\ pageConnections' = ConnectOutcome(pageConnections, t.id, success, now)
          /\ activeTerminals' = IF t.found THEN activeTerminals \cup {t.id}
                                ELSE activeTerminals
    /\ pagePending' = RemoveAt(pagePending, i)
    /\ UNCHANGED <<selectedConnection, showNewForm, pageGenCount, now>>
    /\ UNCHANGED pageOthers

\* handleDisconnect(conn.id); its button is shown for the selected connection
\* when it is connected
handleDisconnect(id) ==
    /\ now < MaxTime
    /\ ShownConn # 0
    /\ pageConnections[ShownConn].id = id
    /\ pageConnections[ShownConn].status = "connected"
    /\ pageConnections' = SetPageStatus(pageConnections, id, "disconnected")
    /\ activeTerminals' = activeTerminals \ {id}
    /\ now' = now + 1
    /\ UNCHANGED <<selectedConnection, showNewForm, pagePending, pageGenCount>>
    /\ UNCHANGED pageOthers

\* the filter that drops the first connection of the list, whatever its id
FilterPageConnsFirst(conns, id) == Tail(conns)

\* prev.filter(conn => conn.id !== id)
FilterPageConns(conns, id) == SelectSeq(conns, LAMBDA c : c.id # id)

\* handleDeleteConnection(conn.id); its button is shown for the selected connection
handleDeleteConnection(id) ==
    /\ now < MaxTime
    /\ ShownConn # 0
    /\ pageConnections[ShownConn].id = id
    /\ IF pageConnections[FindPageConn(pageConnections, id)].status = "connected"
       THEN UNCHANGED <<pageConnections, selectedConnection>>
       ELSE /\ pageConnections' = FilterPageConns(pageConnections, id)
            /\ selectedConnection' = IF selectedConnection = id THEN None
                                     ELSE selectedConnection
    /\ now' = now + 1
    /\ UNCHANGED <<activeTerminals, showNewForm, pagePending, pageGenCount>>
    /\ UNCHANGED pageOthers

\* the ids the page's buttons can carry
PageIds == {pageConnections[i].id : i \in 1..Len(pageConnections)}

PageNext ==
    \/ \E show \in BOOLEAN : setShowNewForm(show)
    \/ \E id \in PageIds : setSelectedConnection(id)
    \/ \E form \in Forms : handleCreateConnection(form)
    \/ \E id \in PageIds : handleConnect(id)
    \/ \E i \in 1..Len(pagePending), success \in BOOLEAN : handleConnectTimer(i, success)
    \/ \E id \in PageIds : handleDisconnect(id)
    \/ \E id \in PageIds : handleDeleteConnection(id)

----------------------------------------------------------------------------

(* SimpleZeroconf (zeroconf_compat.py) *)

\* the address of the local host, the sender of its own broadcasts
LocalAddr == "10.0.0.1"

\* ".".join(str(b) for b in addr) of a 4-byte address, repr(addr) otherwise
FormatAddr(addr) ==
    CASE addr = <<10, 0, 0, 1>> -> "10.0.0.1"
      [] addr = <<10, 0, 0, 2>> -> "10.0.0.2"
      [] addr = <<10, 0, 0, 3>> -> "10.0.0.3"
      [] OTHER -> "b'...'"

\* bytes([int(b) for b in addr_str.split(".")]) when "." is in addr_str; <<>> when
\* the string has no dot or the conversion raises, and the entry is skipped
ParseAddr(str) ==
    CASE str = "10.0.0.1" -> <<10, 0, 0, 1>>
      [] str = "10.0.0.2" -> <<10, 0, 0, 2>>
      [] str = "10.0.0.3" -> <<10, 0, 0, 3>>
      [] OTHER -> <<>>

\* the address list _handle_received_packet builds from message["addresses"]
ParsedAddresses(strs) ==
    SelectSeq([i \in 1..Len(strs) |-> ParseAddr(strs[i])], LAMBDA b : b # <<>>)

\* a SimpleServiceInfo; its properties are copied through and are left out
SimpleServiceInfo(type, name, addresses, port, server) ==
    [type |-> type, name |-> name, addresses |-> addresses, port |-> port,
     server |-> server]

\* the service the local application registers
LocalInfos == { SimpleServiceInfo("c", "me", << <<10, 0, 0, 1>> >>, 5000, "me.local") }

\* a JSON message; a missing key and a falsy value are both the empty value
ZcMessage(type, service_type, service_name, port, addresses) ==
    [type |-> type, service_type |-> service_type, service_name |-> service_name,
     port |-> port, addresses |-> addresses]

\* the message _broadcast_loop builds for a registered service
OwnMessage(info) ==
    ZcMessage("service_advertisement", info.type, info.name, info.port,
              [i \in 1..Len(info.addresses) |-> FormatAddr(info.addresses[i])])

\* the datagrams other hosts of the network send: a service advertised by one
\* host, the same service advertised by another host with an address that is not
\* IPv4, a service whose name and type give the same key as the first, an
\* advertisement without a port, and a message of another type
RemotePackets ==
    { [message |-> ZcMessage("service_advertisement", "c", "a.b", 5000, <<>>),
       addr |-> "10.0.0.2"],
      [message |-> ZcMessage("service_advertisement", "c", "a.b", 5000, <<"fe80::1">>),
       addr |-> "10.0.0.3"],
      [message |-> ZcMessage("service_advertisement", "b.c", "a", 5000, <<"10.0.0.3">>),
       addr |-> "10.0.0.2"],
      [message |-> ZcMessage("service_advertisement", "c", "a", 0, <<>>),
       addr |-> "10.0.0.2"],
      [message |-> ZcMessage("query", "c", "a", 5000, <<>>),
       addr |-> "10.0.0.2"] }

\* the service types a listener is registered for
ZcTypes == {"c", "b.c"}

\* a listener object that implements add_service and update_service
FullListener == [id |-> "listener", hasAdd |-> TRUE, hasUpdate |-> TRUE]

\* a ServiceBrowser object: it has __init__ and cancel only
BrowserObject == [id |-> "browser", hasAdd |-> FALSE, hasUpdate |-> FALSE]

ZcInit ==
    /\ zcServices = <<>>
    /\ zcRunning = FALSE
    /\ zcDiscovered = <<>>
    /\ zcListeners = <<>>
    /\ zcInbox = <<>>
    /\ zcNotified = <<>>
    /\ zcReplaced = <<>>
    /\ zcHeard = {}

\* f"{service_name}.{service_type}"
ServiceKey(service_name, service_type) == service_name \o "." \o service_type

\* key in d: the index of the entry, 0 if there is none
DictIndex(d, key) ==
    IF \E i \in 1..Len(d) : d[i].key = key
    THEN CHOOSE i \in 1..Len(d) : d[i].key = key
    ELSE 0

\* the store that adds an entry whatever the dict holds
DictPutAlwaysNew(d, key, value) == Append(d, [key |-> key, value |-> value])

\* d[key] = value
DictPut(d, key, value) ==
    IF DictIndex(d, key) # 0
    THEN [d EXCEPT ![DictIndex(d, key)] = [key |-> key, value |-> value]]
    ELSE Append(d, [key |-> key, value |-> value])

\* del d[key]
DictDel(d, key) == SelectSeq(d, LAMBDA e : e.key # key)

\* register_service(info)
register_service(info) ==
    /\ zcServices' = DictPut(zcServices, info.name, info)
    /\ zcRunning' = TRUE
    /\ UNCHANGED <<zcDiscovered, zcListeners, zcInbox, zcNotified, zcReplaced, zcHeard>>
    /\ UNCHANGED zcOthers

\* unregister_service(info)
unregister_service(info) ==
    /\ zcServices' = IF DictIndex(zcServices, info.name) # 0
                     THEN DictDel(zcServices, info.name) ELSE zcServices
    /\ UNCHANGED <<zcRunning, zcDiscovered, zcListeners, zcInbox, zcNotified, zcReplaced,
                   zcHeard>>
    /\ UNCHANGED zcOthers

\* add_service_listener(service_type, listener)
add_service_listener(service_type, listener) ==
    /\ Len(zcListeners) < MaxListeners
    /\ zcListeners' = Append(zcListeners, [type |-> service_type, listener |-> listener])
    /\ zcRunning' = TRUE
    /\ UNCHANGED <<zcServices, zcDiscovered, zcInbox, zcNotified, zcReplaced, zcHeard>>
    /\ UNCHANGED zcOthers

\* ServiceBrowser(zeroconf, service_type, listener = ...): the browser registers itself
ServiceBrowser(service_type) == add_service_listener(service_type, BrowserObject)

\* remove_service_listener(listener); ServiceBrowser.cancel() calls it with the browser
remove_service_listener(listener) ==
    /\ zcListeners' = SelectSeq(zcListeners, LAMBDA e : e.listener # listener)
    /\ UNCHANGED <<zcServices, zcRunning, zcDiscovered, zcInbox, zcNotified, zcReplaced,
                   zcHeard>>
    /\ UNCHANGED zcOthers

\* close(): the socket is closed with what it had queued
close ==
    /\ zcRunning' = FALSE
    /\ zcServices' = <<>>
    /\ zcDiscovered' = <<>>
    /\ zcListeners' = <<>>
    /\ zcInbox' = <<>>
    /\ zcNotified' = <<>>
    /\ zcReplaced' = <<>>
    /\ zcHeard' = {}
    /\ UNCHANGED zcOthers

\* a datagram queued on a socket whose buffer holds MaxInbox datagrams
Enqueue(queue, packets) ==
    LET all == queue \o packets
    IN IF Len(all) <= MaxInbox THEN all ELSE SubSeq(all, 1, MaxInbox)

\* another host broadcasts while the socket is bound
remoteAdvertise(packet) ==
    /\ zcRunning
    /\ Len(zcInbox) < MaxInbox
    /\ zcInbox' = Enqueue(zcInbox, <<packet>>)
    /\ UNCHANGED <<zcServices, zcRunning, zcDiscovered, zcListeners, zcNotified,
                   zcReplaced, zcHeard>>
    /\ UNCHANGED zcOthers

\* the datagrams one pass over self.services sends, as they come back to the socket
OwnPackets(services) ==
    [i \in 1..Len(services) |-> [message |-> OwnMessage(services[i].value),
                                  addr |-> LocalAddr]]

\* the socket queue at recvfrom: the broadcast of this iteration is looped back to
\* the socket or not
Arrived(loopback) ==
    IF loopback THEN Enqueue(zcInbox, OwnPackets(zcServices)) ELSE zcInbox

\* all([service_type, service_name, port]) of a service advertisement
Accepted(message) ==
    /\ message.type = "service_advertisement"
    /\ message.service_type # ""
    /\ message.service_name # ""
    /\ message.port # 0

\* the SimpleServiceInfo _handle_received_packet builds
ReceivedInfo(packet) ==
    LET listed == ParsedAddresses(packet.message.addresses)
    IN SimpleServiceInfo(packet.message.service_type, packet.message.service_name,
                         IF listed = <<>> THEN <<ParseAddr(packet.addr)>> ELSE listed,
                         packet.message.port, packet.addr)

Call(method, listener, service_type, service_name) ==
    [method |-> method, listener |-> listener.id, type |-> service_type,
     name |-> service_name]

\* the notification loop over service_listeners
Notifications(listeners, service_type, service_name, is_new) ==
    LET one(e) == IF e.type # service_type THEN <<>>
                  ELSE IF is_new /\ e.listener.hasAdd
                       THEN <<Call("add_service", e.listener, service_type, service_name)>>
                  ELSE IF e.listener.hasUpdate
                       THEN <<Call("update_service", e.listener, service_type, service_name)>>
                  ELSE <<>>
        each == [i \in 1..Len(listeners) |-> one(listeners[i])]
        calls[i \in 0..Len(listeners)] == IF i = 0 THEN <<>> ELSE calls[i - 1] \o each[i]
    IN calls[Len(listeners)]

\* _handle_received_packet(data, addr)
handle_received_packet(packet) ==
    IF ~Accepted(packet.message)
    THEN /\ zcNotified' = <<>>
         /\ zcReplaced' = <<>>
         /\ UNCHANGED <<zcDiscovered, zcHeard>>
    ELSE LET info == ReceivedInfo(packet)
             key == ServiceKey(info.name, info.type)
             is_new == DictIndex(zcDiscovered, key) = 0
         IN /\ zcDiscovered' = DictPut(zcDiscovered, key, info)
            /\ zcReplaced' = IF is_new THEN <<>>
                             ELSE <<zcDiscovered[DictIndex(zcDiscovered, key)].value>>
            /\ zcNotified' = Notifications(zcListeners, info.type, info.name, is_new)
            /\ zcHeard' = zcHeard \cup {<<info.name, info.type>>}

\* one iteration of _broadcast_loop: broadcast every service, then receive one
\* datagram or time out
broadcast_loop(loopback) ==
    /\ zcRunning
    /\ IF Arrived(loopback) = <<>>
       THEN /\ zcInbox' = <<>>
            /\ zcNotified' = <<>>
            /\ zcReplaced' = <<>>
            /\ UNCHANGED <<zcDiscovered, zcHeard>>
       ELSE /\ zcInbox' = Tail(Arrived(loopback))
            /\ handle_received_packet(Head(Arrived(loopback)))
    /\ UNCHANGED <<zcServices, zcRunning, zcListeners>>
    /\ UNCHANGED zcOthers

ZcNext ==
    \/ \E info \in LocalInfos : register_service(info)
    \/ \E info \in LocalInfos : unregister_service(info)
    \/ \E service_type \in ZcTypes : add_service_listener(service_type, FullListener)
    \/ \E service_type \in ZcTypes : ServiceBrowser(service_type)
    \/ \E listener \in {FullListener, BrowserObject} : remove_service_listener(listener)
    \/ close
    \/ \E packet \in RemotePackets : remoteAdvertise(packet)
    \/ \E loopback \in BOOLEAN : broadcast_loop(loopback)

----------------------------------------------------------------------------

(* The preload bridge (preload.js): window.electron.on / removeAllListeners *)

\* validChannels of electron.on and electron.removeAllListeners
ValidChannels == {"new-peer", "peer-disconnect", "new-message", "ssh-output",
                  "ssh-error", "ssh-close", "ssh-ready"}

\* the channels the renderer passes: two of the whitelist and one outside it
IpcChannels == {"ssh-output", "new-message", "ssh-connect"}

\* the callbacks the renderer passes
IpcCallbacks == {"cbA", "cbB"}

\* (_, ...args) => callback(...args): a new function around the callback
WrapperOf(callback) == [wrapper |-> TRUE, callback |-> callback]

\* the callback itself, as a listener
Plain(callback) == [wrapper |-> FALSE, callback |-> callback]

IpcInit ==
    /\ ipcListeners = [channel \in IpcChannels |-> <<>>]
    /\ ipcSubs = <<>>
    /\ ipcLast = <<>>

\* EventEmitter.removeListener: the most recently added instance of the listener
\* is removed, if there is one
RemoveListener(list, listener) ==
    IF \E i \in 1..Len(list) : list[i] = listener
    THEN LET last == CHOOSE i \in 1..Len(list) :
                        list[i] = listener /\ \A j \in (i + 1)..Len(list) : list[j] # listener
         IN SubSeq(list, 1, last - 1) \o SubSeq(list, last + 1, Len(list))
    ELSE list

\* electron.on(channel, callback)
on(channel, callback) ==
    /\ Len(ipcSubs) < MaxSubs
    /\ IF channel \in ValidChannels
       THEN /\ ipcListeners' = [ipcListeners EXCEPT
                                   ![channel] = Append(@, WrapperOf(callback))]
            /\ ipcSubs' = Append(ipcSubs, [channel |-> channel, callback |-> callback,
                                           disposed |-> FALSE])
       ELSE UNCHANGED <<ipcListeners, ipcSubs>>
    /\ ipcLast' = <<>>
    /\ UNCHANGED ipcOthers

\* the function electron.on returned for subscription k is called
unsubscribe(k) ==
    /\ k \in 1..Len(ipcSubs)
    /\ ~ipcSubs[k].disposed
    /\ ipcListeners' = [ipcListeners EXCEPT
                           ![ipcSubs[k].channel] =
                               RemoveListener(@, Plain(ipcSubs[k].callback))]
    /\ ipcSubs' = [ipcSubs EXCEPT ![k].disposed = TRUE]
    /\ ipcLast' = <<>>
    /\ UNCHANGED ipcOthers

\* electron.removeAllListeners(channel)
removeAllListeners(channel) ==
    /\ ipcListeners' = IF channel \in ValidChannels
                       THEN [ipcListeners EXCEPT ![channel] = <<>>]
                       ELSE ipcListeners
    /\ ipcLast' = <<>>
    /\ UNCHANGED ipcSubs
    /\ UNCHANGED ipcOthers

\* the main process sends an event on the channel: every listener is invoked
ipcEvent(channel) ==
    /\ ipcLast' = [i \in 1..Len(ipcListeners[channel]) |->
                      ipcListeners[channel][i].callback]
    /\ UNCHANGED <<ipcListeners, ipcSubs>>
    /\ UNCHANGED ipcOthers

IpcNext ==
    \/ \E channel \in IpcChannels, callback \in IpcCallbacks : on(channel, callback)
    \/ \E k \in 1..Len(ipcSubs) : unsubscribe(k)
    \/ \E channel \in IpcChannels : removeAllListeners(channel)
    \/ \E channel \in IpcChannels : ipcEvent(channel)

----------------------------------------------------------------------------

Init == SSHInit /\ NetInit /\ SockInit /\ PageInit /\ ZcInit /\ IpcInit

Next == SSHNext

Spec == Init /\ [][Next]_vars

SpecSSHStore == Init /\ [][SSHStoreNext]_vars

SpecNet == Init /\ [][NetNext]_vars

SpecNetApi == Init /\ [][NetApiNext]_vars

SpecSocket == Init /\ [][SockNext]_vars

SpecPage == Init /\ [][PageNext]_vars

\* connecting and leaving it, in the SSH context and on the SSH page
SSHConnectNext ==
    \/ \E config \in SessionConfigs : connect(config)
    \/ \E i \in 1..Len(sshPending) : connectDone(i)
    \/ \E id \in ConnIds : disconnect(id)
    \/ \E id \in PageIds : setSelectedConnection(id)
    \/ \E id \in PageIds : handleConnect(id)
    \/ \E i \in 1..Len(pagePending), success \in BOOLEAN : handleConnectTimer(i, success)
    \/ \E id \in PageIds : handleDisconnect(id)
    \/ \E id \in PageIds : handleDeleteConnection(id)

\* a timer that was set does fire
SpecSSHConnect ==
    /\ Init
    /\ [][SSHConnectNext]_vars
    /\ WF_vars(\E i \in 1..Len(sshPending) : connectDone(i))
    /\ WF_vars(\E i \in 1..Len(pagePending), success \in BOOLEAN :
                 handleConnectTimer(i, success))

\* accepting a connection, in the SSH context and on the SSH page
SSHAuthNext ==
    \/ \E config \in SSHConfig : connect(config)
    \/ \E i \in 1..Len(sshPending) : connectDone(i)
    \/ \E show \in BOOLEAN : setShowNewForm(show)
    \/ \E form \in Forms : handleCreateConnection(form)

SpecSSHAuth == Init /\ [][SSHAuthNext]_vars

SpecPreload == Init /\ [][IpcNext]_vars

\* SimpleZeroconf with no listener registered: advertising and discovery
ZcStoreNext ==
    \/ \E info \in LocalInfos : register_service(info)
    \/ \E info \in LocalInfos : unregister_service(info)
    \/ close
    \/ \E packet \in RemotePackets : remoteAdvertise(packet)
    \/ \E loopback \in BOOLEAN : broadcast_loop(loopback)

SpecZeroconfStore == Init /\ [][ZcStoreNext]_vars

\* the daemon thread keeps looping while the instance is running
SpecZeroconf ==
    /\ Init
    /\ [][ZcNext]_vars
    /\ WF_vars(\E loopback \in BOOLEAN : broadcast_loop(loopback))

----------------------------------------------------------------------------
(* Properties of the SSH context *)

StatusEdges ==
    { <<"connecting", "connected">>, <<"connecting", "error">>,
      <<"connected", "disconnected">>, <<"connected", "error">>,
      <<"error", "connecting">> }

\* C1: every change of a connection's status follows an edge of the machine
\* (new) -> connecting -> connected | error, connected -> disconnected | error,
\* error -> connecting; a record that appears starts as connecting.
C1_StatusFollowsMachine ==
    [][/\ Len(connections') >= Len(connections)
       /\ \A i \in 1..Len(connections') :
            IF i <= Len(connections)
            THEN \/ connections'[i].status = connections[i].status
                 \/ <<connections[i].status, connections'[i].status>> \in StatusEdges
            ELSE connections'[i].status = "connecting"]_vars

\* C2: executeCommand on an unknown or not connected connection returns false and
\* leaves every history and lastActivity as it was; on a connected connection it
\* appends exactly one history entry, holding the command.
C2_ExecuteGuard ==
    [][\A id \in ConnIds, command \in Commands :
         executeCommand(id, command) =>
           LET known == {i \in 1..Len(connections) : connections[i].id = id}
               first == CHOOSE i \in known : \A j \in known : i <= j
           IN IF known = {} \/ connections[first].status # "connected"
              THEN /\ sshReturn'.op = "executeCommand"
                   /\ sshReturn'.value = "false"
                   /\ Len(connections') = Len(connections)
                   /\ \A i \in 1..Len(connections) :
                        /\ connections'[i].history = connections[i].history
                        /\ connections'[i].lastActivity = connections[i].lastActivity
              ELSE /\ Len(connections'[first].history)
                        = Len(connections[first].history) + 1
                   /\ SubSeq(connections'[first].history, 1,
                             Len(connections[first].history))
                        = connections[first].history
                   /\ connections'[first].history[Len(connections'[first].history)].command
                        = command]_vars

\* a connected connection accepted a command (its history holds one entry), and
\* the last executeCommand, on an id no connection carries, was refused
C2_Witness ==
    /\ sshReturn.op = "executeCommand"
    /\ sshReturn.value = "false"
    /\ \A i \in 1..Len(connections) : connections[i].id # sshReturn.id
    /\ \E i \in 1..Len(connections) :
         /\ connections[i].status = "connected"
         /\ Len(connections[i].history) = 1

\* C3: the chunks of two commands are never interleaved in a buffer: between the
\* echoes of two commands lies the output of the first.
C3_NoInterleaving ==
    \A id \in DOMAIN outputs :
      \A i, j \in 1..Len(outputs[id]) :
        (i < j /\ outputs[id][i].kind = "echo" /\ outputs[id][j].kind = "echo")
          => \E k \in (i + 1)..(j - 1) : outputs[id][k].kind = "out"

\* C4: an operation applied to connection A (a call, or the continuation of a call
\* after its delay) leaves the record (status, error, history, lastActivity) and
\* the output buffer of every connection B # A unchanged.
C4_OtherConnectionsUntouched ==
    [][LET Untouched(a) ==
             /\ \A i \in 1..Len(connections) :
                  connections[i].id # a =>
                    /\ i <= Len(connections')
                    /\ connections'[i] = connections[i]
             /\ \A b \in ((DOMAIN outputs) \cup (DOMAIN outputs')) \ {a} :
                  /\ b \in DOMAIN outputs
                  /\ b \in DOMAIN outputs'
                  /\ outputs'[b] = outputs[b]
       IN /\ \A config \in SSHConfig :
               connect(config) =>
                 Untouched(IF config.id # None THEN config.id ELSE GenIds[genCount + 1])
          /\ \A i \in 1..Len(sshPending) :
               (connectDone(i) \/ executeCommandDone(i) \/ transferFileDone(i))
                 => Untouched(sshPending[i].id)
          /\ \A a \in ConnIds :
               (\/ disconnect(a)
                \/ \E command \in Commands : executeCommand(a, command)
                \/ clearOutput(a)
                \/ uploadFile(a)
                \/ downloadFile(a))
                 => Untouched(a)]_vars

\* connection B is connected, its record and its two chunks intact, after
\* connection A was connected and then closed
C4_Witness ==
    \E i, j \in 1..Len(connections) :
      /\ connections[i].id # connections[j].id
      /\ connections[i].status = "disconnected"
      /\ Len(OutputsOf(outputs, connections[i].id)) = 3
      /\ connections[j].status = "connected"
      /\ connections[j].history = <<>>
      /\ Len(OutputsOf(outputs, connections[j].id)) = 2

\* C5: no connection record holds a raw secret: its config carries neither a
\* password nor a passphrase.
C5_NoRawSecretInConnection ==
    \A i \in 1..Len(connections) :
      /\ connections[i].config.password = None
      /\ connections[i].config.passphrase = None

\* C6: the persistent store holds no SSH password and no passphrase.
C6_NoSecretPersisted ==
    \A i \in 1..Len(sshStore) :
      \A kv \in sshStore[i] : kv[1] \notin {"password", "passphrase"}

C8_DuplicatesDiscarded ==
    \A cb \in Callbacks, id \in EventIds :
      Cardinality({k \in 1..Len(received[cb]) :
                     received[cb][k] = <<"message_event", id>>}) <= 1

\* C9: an event arriving on a channel is received by every callback registered
\* for that channel, whatever the other callbacks do.
C9_EveryCallbackReceives ==
    [][\A n \in 1..Len(sockets), ch \in Channels, id \in EventIds :
         dispatch(n, ch, id) =>
           \A k \in 1..Len(callbacks[ch]) :
             LET cb == callbacks[ch][k]
             IN /\ Len(received'[cb]) > Len(received[cb])
                /\ received'[cb][Len(received'[cb])] = <<ch, id>>]_vars

\* C10: disconnect on an already disconnected connection leaves its status, its
\* output buffer and the active connection as they were.
C10_DisconnectIdempotent ==
    [][\A id \in ConnIds :
         (/\ disconnect(id)
          /\ \E i \in 1..Len(connections) : connections[i].id = id
          /\ \A i \in 1..Len(connections) :
               connections[i].id = id => connections[i].status = "disconnected")
         => /\ \A i \in 1..Len(connections) :
                 connections'[i].status = connections[i].status
            /\ OutputsOf(outputs', id) = OutputsOf(outputs, id)
            /\ activeConnection' = activeConnection]_vars

\* C11: every output buffer is append-only: whatever the step (a call, a delayed
\* continuation, an ssh-output event), each buffer before it is a prefix of the
\* same buffer after it.
C11_OutputAppendOnly ==
    [][\A id \in DOMAIN outputs :
         /\ id \in DOMAIN outputs'
         /\ Len(outputs'[id]) >= Len(outputs[id])
         /\ SubSeq(outputs'[id], 1, Len(outputs[id])) = outputs[id]]_vars

\* C12: no output buffer ever holds more than OutputCap chunks.
C12_OutputBounded ==
    \A id \in DOMAIN outputs : Len(outputs[id]) <= OutputCap

\* C13: every connection authenticates with exactly one method: a connection the
\* context's connect accepts carries not both a password and a key and was given
\* one of them; a connection the page's form creates has one authType, whose
\* credential was supplied.
C13_OneAuthMethod ==
    [][/\ \A config \in SSHConfig :
            connect(config) =>
              LET kept == connections'[Len(connections')].config
              IN /\ ~(kept.password # None /\ kept.privateKey # None)
                 /\ ~(config.password = None /\ config.privateKey = None)
       /\ \A form \in Forms :
            handleCreateConnection(form) =>
              LET made == pageConnections'[Len(pageConnections')]
              IN \/ made.authType = "password" /\ form.password # ""
                 \/ made.authType = "key" /\ form.keyPath # ""]_vars

\* every id a connection of the page can carry
AllPageIds ==
    {loadedConnections[i].id : i \in 1..Len(loadedConnections)}
    \cup {PageGenIds[n] : n \in 1..MaxPageConns}

C17_UnknownRecipientNotSent ==
    [][\A content \in Contents, recipientId \in RecipientIds, groupId \in GroupArgs :
          (/\ sendMessageCall(content, recipientId, groupId)
           /\ recipientId # None
           /\ FindById(peers, recipientId) = 0)
          => /\ messages' = messages
             /\ netPending' = netPending]_vars

\* C18: every group of the groups list has 'self' among its members, and no
\* identity appears twice in its members.
C18_GroupMembersSetWithSelf ==
    \A i \in 1..Len(groups) :
        LET m == groups[i].members
        IN /\ \E k \in 1..Len(m) : m[k] = "self"
           /\ \A k, l \in 1..Len(m) : m[k] = m[l] => k = l

----------------------------------------------------------------------------
(* Properties of SimpleZeroconf *)

\* the keys the advertisements of the model are stored under
ZcKeys == {"a.b.c", "me.c"}

\* how many times the calls hold the call of `method` on `listener`
CallsTo(calls, method, listener, service_type, service_name) ==
    Cardinality({k \in 1..Len(calls) :
                    calls[k] = Call(method, listener, service_type, service_name)})

\* C14: an advertisement the local instance broadcast itself is ignored when the
\* socket receives it back: it is not stored in discovered_services and no
\* listener is called for it.
C14_OwnBroadcastIgnored ==
    [][\A loopback \in BOOLEAN :
          (/\ broadcast_loop(loopback)
           /\ Arrived(loopback) # <<>>
           /\ Head(Arrived(loopback)).addr = LocalAddr)
          => /\ zcDiscovered' = zcDiscovered
             /\ zcNotified' = <<>>]_vars

\* C15: discovered_services never holds two entries of one (service_name,
\* service_type); an advertisement of a known pair that comes from another
\* address replaces the addresses of its entry and adds no entry.
C15_OneEntryPerIdentity ==
    [][/\ \A i, j \in 1..Len(zcDiscovered') :
            (/\ zcDiscovered'[i].value.name = zcDiscovered'[j].value.name
             /\ zcDiscovered'[i].value.type = zcDiscovered'[j].value.type) => i = j
       /\ \A loopback \in BOOLEAN :
            (/\ broadcast_loop(loopback)
             /\ Arrived(loopback) # <<>>
             /\ Accepted(Head(Arrived(loopback)).message)
             /\ \E i \in 1..Len(zcDiscovered) :
                   /\ zcDiscovered[i].value.name = Head(Arrived(loopback)).message.service_name
                   /\ zcDiscovered[i].value.type = Head(Arrived(loopback)).message.service_type)
            => LET packet == Head(Arrived(loopback))
               IN /\ Len(zcDiscovered') = Len(zcDiscovered)
                  /\ \E i \in 1..Len(zcDiscovered') :
                        /\ zcDiscovered'[i].value.name = packet.message.service_name
                        /\ zcDiscovered'[i].value.type = packet.message.service_type
                        /\ zcDiscovered'[i].value.server = packet.addr
                        /\ ParsedAddresses(packet.message.addresses) = <<>>
                             => zcDiscovered'[i].value.addresses = <<ParseAddr(packet.addr)>>
      ]_vars

\* the service "a.b" of type "c", known from 10.0.0.2, was advertised from
\* 10.0.0.3: its one entry now carries the new address
C15_Witness ==
    /\ zcReplaced # <<>>
    /\ zcReplaced[1].name = "a.b"
    /\ zcReplaced[1].type = "c"
    /\ zcReplaced[1].addresses = << <<10, 0, 0, 2>> >>
    /\ Len(zcDiscovered) = 2
    /\ \E i \in 1..Len(zcDiscovered) :
          /\ zcDiscovered[i].value.name = "a.b"
          /\ zcDiscovered[i].value.type = "c"
          /\ zcDiscovered[i].value.addresses = << <<10, 0, 0, 3>> >>

\* C16: a discovered peer that is silent does not stay in the peer set: its entry
\* is eventually removed, unless an advertisement for it is stored again.
C16_SilentPeerEvicted ==
    \A key \in ZcKeys :
        (DictIndex(zcDiscovered, key) # 0)
        ~> \/ DictIndex(zcDiscovered, key) = 0
           \/ /\ zcReplaced # <<>>
              /\ ServiceKey(zcReplaced[1].name, zcReplaced[1].type) = key

\* C20: when an advertisement is stored, every listener registered for its type
\* gets add_service exactly once if the (service_name, service_type) was not
\* stored before, and update_service and no add_service if it was.
C20_AddOnceThenUpdate ==
    [][\A loopback \in BOOLEAN :
          (/\ broadcast_loop(loopback)
           /\ Arrived(loopback) # <<>>
           /\ Accepted(Head(Arrived(loopback)).message))
          => LET m == Head(Arrived(loopback)).message
             IN \A i \in 1..Len(zcListeners) :
                   zcListeners[i].type = m.service_type =>
                      LET adds == CallsTo(zcNotified', "add_service",
                                          zcListeners[i].listener,
                                          m.service_type, m.service_name)
                          updates == CallsTo(zcNotified', "update_service",
                                             zcListeners[i].listener,
                                             m.service_type, m.service_name)
                      IN IF <<m.service_name, m.service_type>> \notin zcHeard
                         THEN adds = 1 /\ updates = 0
                         ELSE adds = 0 /\ updates >= 1
      ]_vars

----------------------------------------------------------------------------
(* Properties of the network context, second part *)

\* C21: selectPeer(p) for a known peer p marks as read the messages p sent to
\* 'self', selectGroup(g) for a known group g marks as read the messages of g,
\* and neither changes anything else of any message; with an unknown id they
\* change no message.
C21_SelectMarksOnlyItsMessages ==
    [][/\ \A peerId \in PeerArgs :
            selectPeerCall(peerId) =>
               /\ Len(messages') = Len(messages)
               /\ \A i \in 1..Len(messages) :
                     messages'[i] =
                        IF /\ peerId # None
                           /\ \E k \in 1..Len(peers) : peers[k].id = peerId
                           /\ messages[i].sender = peerId
                           /\ messages[i].recipient = "self"
                        THEN [messages[i] EXCEPT !.isRead = TRUE]
                        ELSE messages[i]
       /\ \A groupId \in SelectGroupArgs :
            selectGroupCall(groupId) =>
               /\ Len(messages') = Len(messages)
               /\ \A i \in 1..Len(messages) :
                     messages'[i] =
                        IF /\ groupId # None
                           /\ \E k \in 1..Len(groups) : groups[k].id = groupId
                           /\ messages[i].group = groupId
                        THEN [messages[i] EXCEPT !.isRead = TRUE]
                        ELSE messages[i]
      ]_vars

\* peer "1" is selected and its reply, which arrived unread, is read, while the
\* unread broadcast of peer "2" is still unread
C21_Witness ==
    /\ selectedPeer = "1"
    /\ \E i \in 1..Len(messages) :
          /\ messages[i].content = "Thank you"
          /\ messages[i].sender = "1"
          /\ messages[i].isRead
    /\ \E i \in 1..Len(messages) :
          /\ messages[i].sender = "2"
          /\ ~messages[i].isRead

\* C22: setUsername changes the username and its persisted copy only: the
\* message list, the peer list and the group list stay as they were and no
\* further simulated incoming message is scheduled.
C22_SetUsernameKeepsSession ==
    [][\A name \in Usernames :
          setUsername(name) =>
             /\ messages' = messages
             /\ peers' = peers
             /\ groups' = groups
             /\ netPending' = netPending]_vars

----------------------------------------------------------------------------
(* Properties of the SSH context, second part *)

\* how many of the chunks are a command echo or a command output
CommandChunks(chunks) ==
    Cardinality({k \in 1..Len(chunks) : chunks[k].kind \in {"echo", "out"}})

\* C23: no two entries of the connections list share an id, and a connect leaves
\* the records and the output buffers of the connections that exist already as
\* they are.
C23_ConnectionIdsUnique ==
    [][/\ \A i, j \in 1..Len(connections') :
            connections'[i].id = connections'[j].id => i = j
       /\ \A config \in SSHConfig :
            connect(config) =>
               /\ \A i \in 1..Len(connections) : connections'[i] = connections[i]
               /\ \A i \in 1..Len(connections) :
                     OutputsOf(outputs', connections[i].id)
                        = OutputsOf(outputs, connections[i].id)
      ]_vars

\* C27: while connection id is disconnected, no command echo and no command
\* output is appended to its output buffer.
C27_NoOutputAfterDisconnect ==
    [][\A id \in ConnIds :
          (/\ \E i \in 1..Len(connections) : connections[i].id = id
           /\ \A i \in 1..Len(connections) :
                 connections[i].id = id => connections[i].status = "disconnected")
          => CommandChunks(OutputsOf(outputs', id)) <= CommandChunks(OutputsOf(outputs, id))
      ]_vars

\* C28: when a connect completes while activeConnection is set, activeConnection
\* keeps its value.
C28_ConnectKeepsActive ==
    [][\A i \in 1..Len(sshPending) :
          (connectDone(i) /\ activeConnection # None)
          => activeConnection' = activeConnection]_vars

----------------------------------------------------------------------------
(* Properties of the SSH page *)

\* C26: activeTerminals holds an id only while a connection with that id exists
\* and its status is connected.
C26_TerminalOnlyWhenConnected ==
    \A id \in activeTerminals :
        \E i \in 1..Len(pageConnections) :
            /\ pageConnections[i].id = id
            /\ pageConnections[i].status = "connected"

\* C29: a connection of the page carries an error reason exactly when its status
\* is error.
C29_ErrorReasonIffError ==
    \A i \in 1..Len(pageConnections) :
        (pageConnections[i].status = "error") <=> (pageConnections[i].error # None)

\* C30: handleDeleteConnection on a connected connection leaves the connections
\* and the selection as they are; on another existing connection it removes that
\* connection and no other, and clears the selection only if it was the selected
\* one.
C30_DeleteSparesConnected ==
    [][\A id \in AllPageIds :
          handleDeleteConnection(id) =>
             \E k \in 1..Len(pageConnections) :
                /\ pageConnections[k].id = id
                /\ IF pageConnections[k].status = "connected"
                   THEN /\ pageConnections' = pageConnections
                        /\ selectedConnection' = selectedConnection
                   ELSE /\ pageConnections' =
                             SubSeq(pageConnections, 1, k - 1)
                                \o SubSeq(pageConnections, k + 1, Len(pageConnections))
                        /\ selectedConnection' =
                             IF selectedConnection = id THEN None ELSE selectedConnection
      ]_vars

\* connection "2" was deleted while the connected connection "1" is still listed
C30_Witness ==
    /\ "2" \notin PageIds
    /\ selectedConnection = None
    /\ \E i \in 1..Len(pageConnections) :
          /\ pageConnections[i].id = "1"
          /\ pageConnections[i].status = "connected"

----------------------------------------------------------------------------
(* Properties of the preload bridge *)

\* C25: once every function electron.on returned for a callback on a channel has
\* been called, the callback is not invoked by the events of that channel; and
\* electron.on for a channel outside the whitelist registers no listener.
C25_UnsubscribeStopsEvents ==
    [][/\ \A channel \in IpcChannels, callback \in IpcCallbacks :
            (/\ ipcEvent(channel)
             /\ \E k \in 1..Len(ipcSubs) :
                   ipcSubs[k].channel = channel /\ ipcSubs[k].callback = callback
             /\ \A k \in 1..Len(ipcSubs) :
                   (ipcSubs[k].channel = channel /\ ipcSubs[k].callback = callback)
                      => ipcSubs[k].disposed)
            => \A i \in 1..Len(ipcLast') : ipcLast'[i] # callback
       /\ \A channel \in IpcChannels \ ValidChannels, callback \in IpcCallbacks :
            on(channel, callback) => ipcListeners' = ipcListeners
      ]_vars

----------------------------------------------------------------------------
(* Properties of the socket service, second part *)

\* C24: between a disconnect() and the next connect() the connected flag stays
\* false and no callback is invoked; and only the socket of the latest connect()
\* dispatches events or sets the connected flag.
C24_OnlyCurrentSocketActs ==
    [][/\ (socket = None /\ socket' = None)
            => (connected' = FALSE /\ received' = received)
       /\ \A n \in 1..Len(sockets) :
            (\/ onConnect(n)
             \/ onDisconnect(n)
             \/ \E ch \in Channels, id \in EventIds : dispatch(n, ch, id))
            => Handles[n] = socket
      ]_vars

====
